---- MODULE Spec2Model ----
(***************************************************************************)
(* Model of the browser-side tiered response cache of the Dota 2 dashboard *)
(* (stores/cacheStore.ts): the key encoding, the in-memory Map (fast       *)
(* tier), localStorage (persistent tier), the per-category policy table    *)
(* and the operations get / set / clear / clearAll / cleanupExpired /      *)
(* getStats, together with the environment the store lives in: the clock,  *)
(* page reloads (which empty the Map and run the start-up plugin), new     *)
(* builds that ship another policy table, and foreign writes to            *)
(* localStorage.                                                           *)
(*                                                                         *)
(* Text is modelled as a sequence of tokens; concatenation is \o.  The     *)
(* tokens used ("accountId", "=", "&", ":", the digits, ...) form a prefix *)
(* code, so two token sequences are equal exactly when the JavaScript      *)
(* strings they stand for are equal.                                       *)
(*                                                                         *)
(* Time is counted in ticks of MsPerTick milliseconds; every TTL of the    *)
(* policy table is a whole number of ticks.                                *)
(*                                                                         *)
(* The store is modelled in the browser process, where process.server is   *)
(* false: the pages call the data-fetching functions from onMounted and    *)
(* from event handlers, so get and set run in the browser only.            *)
(***************************************************************************)
EXTENDS Integers, Sequences, FiniteSets, TLC

VARIABLES
    now,          \* Date.now(), in ticks
    config,       \* DEFAULT_CACHE_CONFIGS of the build that is running
    cache,        \* state.cache : Map<string, CachedItem>   (fast tier)
    localStorage, \* window.localStorage : storage key -> text (persistent tier)
    last,         \* the operation that just ran, its arguments and its outcome
    tracked,      \* history: per key, the latest set of this session that nothing touched since
    keyIn,        \* inputs handed to generateKey (key-encoding specification)
    keyOut,       \* what generateKey produced for keyIn
    hero,         \* state of useHeroStore
    pending,      \* upstream requests in flight, with the call that awaits each
    hist          \* history: what the calls of the consumers did so far

vars == <<now, config, cache, localStorage, last, tracked, keyIn, keyOut, hero, pending, hist>>

----------------------------------------------------------------------------
(* Bounds *)

MaxTime == 3

----------------------------------------------------------------------------
(* Values, text and the key codec *)

Absent == "null"

Num(n)  == [kind |-> "number", num |-> n]
Str(s)  == [kind |-> "string", str |-> s]
Obj(id) == [kind |-> "object", id |-> id]
Arr(ns) == [kind |-> "array", elems |-> ns]

DigitTok(d) == <<"0", "1", "2", "3", "4", "5", "6", "7", "8", "9">>[d + 1]

RECURSIVE Digits(_)
Digits(n) == IF n < 10 THEN <<DigitTok(n)>>
             ELSE Digits(n \div 10) \o <<DigitTok(n % 10)>>

RECURSIVE JoinComma(_)
JoinComma(ns) == IF ns = <<>> THEN <<>>
                 ELSE IF Len(ns) = 1 THEN Digits(ns[1])
                 ELSE Digits(ns[1]) \o <<",">> \o JoinComma(Tail(ns))

\* String(v), as the template literal `${params[key]}` applies it
TemplateString(v) ==
    CASE v.kind = "number" -> Digits(v.num)
      [] v.kind = "string" -> v.str
      [] v.kind = "object" -> <<"[object Object]">>
      [] v.kind = "array"  -> JoinComma(v.elems)

IsPrimitive(v) == v.kind \in {"number", "string"}

\* code-unit order of the parameter names the application uses
NameRank(n) ==
    CASE n = "accountId" -> 1
      [] n = "limit"     -> 2
      [] n = "query"     -> 3

\* A parameter object is the sequence of its <<name, value>> entries in
\* insertion order (the order Object.keys reports).
ParamNames(params) == {params[i][1] : i \in 1..Len(params)}

RECURSIVE InsertSorted(_, _)
InsertSorted(e, s) ==
    IF s = <<>> THEN <<e>>
    ELSE IF NameRank(e[1]) <= NameRank(Head(s)[1]) THEN <<e>> \o s
    ELSE <<Head(s)>> \o InsertSorted(e, Tail(s))

\* mutation: the names are not sorted
SortByName_Unsorted(params) == params

RECURSIVE SortByName(_)
SortByName(params) ==
    IF params = <<>> THEN <<>>
    ELSE InsertSorted(Head(params), SortByName(Tail(params)))

\* mutation: only the names are joined, the values are left out
RECURSIVE JoinAmp_NamesOnly(_)
JoinAmp_NamesOnly(entries) ==
    IF entries = <<>> THEN <<>>
    ELSE IF Len(entries) = 1 THEN <<Head(entries)[1]>>
    ELSE <<Head(entries)[1], "&">> \o JoinAmp_NamesOnly(Tail(entries))

RECURSIVE JoinAmp(_)
JoinAmp(entries) ==
    IF entries = <<>> THEN <<>>
    ELSE LET e == Head(entries)
             one == <<e[1], "=">> \o TemplateString(e[2])
         IN  IF Len(entries) = 1 THEN one
             ELSE one \o <<"&">> \o JoinAmp(Tail(entries))

generateKey(type, params) ==
    LET paramString == JoinAmp(SortByName(params))
    IN  IF paramString # <<>> THEN <<type, ":">> \o paramString ELSE <<type>>

----------------------------------------------------------------------------
(* The policy table and the two tiers *)

MsPerTick == 5 * 60 * 1000

DEFAULT_CACHE_CONFIGS ==
    [type \in {"player_profile", "player_winloss", "player_heroes",
               "player_matches", "hero_constants", "search_results"} |->
        CASE type = "player_profile" -> [version |-> "1.0", ttl |-> (30 * 60 * 1000) \div MsPerTick]
          [] type = "player_winloss" -> [version |-> "1.0", ttl |-> (60 * 60 * 1000) \div MsPerTick]
          [] type = "player_heroes"  -> [version |-> "1.0", ttl |-> (2 * 60 * 60 * 1000) \div MsPerTick]
          [] type = "player_matches" -> [version |-> "1.0", ttl |-> (10 * 60 * 1000) \div MsPerTick]
          [] type = "hero_constants" -> [version |-> "1.0", ttl |-> (24 * 60 * 60 * 1000) \div MsPerTick]
          [] type = "search_results" -> [version |-> "1.0", ttl |-> (5 * 60 * 1000) \div MsPerTick]]

HasConfig(type) == type \in DOMAIN config

EmptyMap == <<>>
MapHas(m, k) == k \in DOMAIN m
MapSet(m, k, v) == [x \in (DOMAIN m) \cup {k} |-> IF x = k THEN v ELSE m[x]]
MapDelete(m, k) == [x \in (DOMAIN m) \ {k} |-> m[x]]

CachedItem(data, timestamp, version, ttl) ==
    [data |-> data, timestamp |-> timestamp, version |-> version, ttl |-> ttl]

NoItem == CachedItem("-", 0, "-", 0)

\* localStorage text: the serialisation of an item, or text some other writer left
JSONstringify(item) == [syntax |-> "item", item |-> item]
EmptyText   == [syntax |-> "empty", item |-> NoItem]    \* ""
GarbageText == [syntax |-> "garbage", item |-> NoItem]  \* not JSON
NullText    == [syntax |-> "null", item |-> NoItem]     \* the JSON text null

\* JSON.parse: a SyntaxError for text that is not JSON, the value otherwise
JSONparse(text) ==
    CASE text.syntax = "item"    -> [threw |-> FALSE, isNull |-> FALSE, item |-> text.item]
      [] text.syntax = "null"    -> [threw |-> FALSE, isNull |-> TRUE, item |-> NoItem]
      [] text.syntax = "empty"   -> [threw |-> TRUE, isNull |-> FALSE, item |-> NoItem]
      [] text.syntax = "garbage" -> [threw |-> TRUE, isNull |-> FALSE, item |-> NoItem]

\* `cache:${key}`
StorageKey(key) == <<"cache:">> \o key
startsWithCache(skey) == skey # <<>> /\ Head(skey) = "cache:"

\* key.split(':')[0]
RECURSIVE SplitFirst(_)
SplitFirst(key) ==
    IF key = <<>> \/ Head(key) = ":" THEN <<>>
    ELSE <<Head(key)>> \o SplitFirst(Tail(key))

\* mutation: the policy is looked up under the whole key, not under its category
isCacheValid_WholeKey(key) ==
    IF ~MapHas(cache, key) THEN FALSE
    ELSE LET item == cache[key]
         IN  IF ~(Len(key) = 1 /\ HasConfig(key[1])) THEN FALSE
             ELSE /\ item.version = config[key[1]].version
                  /\ now - item.timestamp < item.ttl

isCacheValid(key) ==
    IF ~MapHas(cache, key) THEN FALSE
    ELSE LET item == cache[key]
             t == SplitFirst(key)
         IN  IF ~(Len(t) = 1 /\ HasConfig(t[1])) THEN FALSE
             ELSE /\ item.version = config[t[1]].version
                  /\ now - item.timestamp < item.ttl

\* mutation: the version of the stored record is not compared
StoredValid_NoVersion(type, item) ==
    /\ HasConfig(type)
    /\ now - item.timestamp < item.ttl

\* mutation: the age is compared with the ttl of the current policy
StoredValid_PolicyTtl(type, item) ==
    /\ HasConfig(type)
    /\ item.version = config[type].version
    /\ now - item.timestamp < config[type].ttl

\* the test get applies to a record read from localStorage
StoredValid(type, item) ==
    /\ HasConfig(type)
    /\ item.version = config[type].version
    /\ now - item.timestamp < item.ttl

\* mutation: the promoted item is stamped with the time of the read
Restored_Refreshed(item) == [item EXCEPT !.timestamp = now]

\* "Restore to memory cache": the item get puts into the Map on a localStorage hit
Restored(item) == item

\* mutation: the invalid record is left in localStorage
RemoveExpired_Keep(skey) == localStorage

\* "Remove expired cache": localStorage after get found the record under skey invalid
RemoveExpired(skey) == MapDelete(localStorage, skey)

----------------------------------------------------------------------------
(* Inputs *)

Payloads == {"X", "Y"}

P42  == <<<<"accountId", Num(42)>>, <<"limit", Num(20)>>>>
P43  == <<<<"accountId", Num(43)>>, <<"limit", Num(20)>>>>
\* the route parameter as the string "42", entries inserted in the other order
P42s == <<<<"limit", Num(20)>>, <<"accountId", Str(<<"4", "2">>)>>>>

\* the (category, params) pairs written by the consumers of this model;
\* "hero_stats" is the category usePlayerAnalytics.fetchHeroStats uses
SetRequests == { <<"player_matches", P42>>, <<"hero_stats", <<>>>> }

\* the pairs read
GetRequests == SetRequests \cup { <<"player_matches", P43>>, <<"player_matches", P42s>> }

\* policy tables a later build may ship for the category in use
ShortTtl == (5 * 60 * 1000) \div MsPerTick

Builds ==
    { [DEFAULT_CACHE_CONFIGS EXCEPT !["player_matches"] = [version |-> v, ttl |-> t]] :
        v \in {"1.0", "2.0"},
        t \in {DEFAULT_CACHE_CONFIGS["player_matches"].ttl, ShortTtl} }

----------------------------------------------------------------------------
(* Records of what an operation did *)

\* Object.keys(localStorage).filter(key => key.startsWith('cache:'))
CacheKeys(ls) == {k \in DOMAIN ls : startsWithCache(k)}

Restrict(m, ks) == [x \in ks |-> m[x]]

(* cacheStore.getStats *)
getStats ==
    [memoryItems |-> Cardinality(DOMAIN cache),
     localStorageItems |-> Cardinality(CacheKeys(localStorage))]

NoStats == [memoryItems |-> 0, localStorageItems |-> 0]

\* the upstream requests in flight; the fetch completed last and the set
\* executed last, per key, since the key was last cleared
NoPending == <<>>

NoHist == [fetched |-> EmptyMap, written |-> EmptyMap]

\* A request of a consumer in flight. consumer: the function that issued it; overlap: another request for the key
\* was in flight at some time since it went out; cleared: the key was
\* cleared since it went out.
Request(consumer, type, params, overlap) ==
    [consumer |-> consumer, type |-> type, params |-> params,
     overlap |-> overlap, cleared |-> FALSE]

RequestKey(req) == generateKey(req.type, req.params)

\* the requests in flight once one more for the key has gone out
Overlapped(reqs, key) ==
    [i \in DOMAIN reqs |-> IF RequestKey(reqs[i]) = key
                           THEN [reqs[i] EXCEPT !.overlap = TRUE] ELSE reqs[i]]

\* the requests in flight once the keys have been cleared
Cleared(reqs, keys) ==
    [i \in DOMAIN reqs |-> IF RequestKey(reqs[i]) \in keys
                           THEN [reqs[i] EXCEPT !.cleared = TRUE] ELSE reqs[i]]

NoRequest == Request("-", "-", <<>>, FALSE)

\* op: the operation; type, params, data: its arguments; ret: the value get
\* returned; threw: an exception reached the caller; wfail: setItem threw;
\* path: the branch get took; seen: the item get decoded from localStorage;
\* stats: what getStats returned; before: the entries the two tiers held when
\* clear or clearAll started; req: the request that settled; by: the consumer
\* that called
Idle ==
    [op |-> "none", type |-> "-", params |-> <<>>, data |-> "-", ret |-> "-",
     threw |-> FALSE, wfail |-> FALSE, path |-> "-", seen |-> NoItem, stats |-> NoStats,
     before |-> NoStats, req |-> NoRequest, by |-> "-"]

Did(op) == [Idle EXCEPT !.op = op]

----------------------------------------------------------------------------
(* cacheStore.get *)

\* the outcome of get(type, params) in the current state: the value returned,
\* the two tiers as the call leaves them, and the branch taken
GetOutcome(type, params) ==
    LET key == generateKey(type, params)
        skey == StorageKey(key)
        miss == [ret |-> Absent, cache |-> cache, localStorage |-> localStorage,
                 path |-> "miss", seen |-> NoItem]
    IN  IF isCacheValid(key)
        THEN [miss EXCEPT !.ret = cache[key].data, !.path = "memory"]
        ELSE IF ~MapHas(localStorage, skey) \/ localStorage[skey].syntax = "empty"
        THEN miss                              \* getItem gave null or ""
        ELSE LET parsed == JSONparse(localStorage[skey])
             IN  IF parsed.threw \/ parsed.isNull
                 THEN [miss EXCEPT !.path = "error"]   \* caught: only logged
                 ELSE LET item == parsed.item
                      IN  IF StoredValid(type, item)
                          THEN [ret |-> item.data,
                                cache |-> MapSet(cache, key, Restored(item)),
                                localStorage |-> localStorage,
                                path |-> "localStorage", seen |-> item]
                          ELSE [miss EXCEPT !.localStorage = RemoveExpired(skey),
                                            !.path = "removed", !.seen = item]

Get(type, params) ==
    LET out == GetOutcome(type, params)
    IN  /\ cache' = out.cache
        /\ localStorage' = out.localStorage
        /\ last' = [Did("get") EXCEPT !.type = type, !.params = params, !.ret = out.ret,
                                      !.path = out.path, !.seen = out.seen]
        /\ UNCHANGED <<now, config, tracked, keyIn, keyOut, hero, pending, hist>>

----------------------------------------------------------------------------
(* cacheStore.set *)

\* mutation: the entry is written to localStorage only
SetOutcome_StorageOnly(type, data, params, writeFails) ==
    IF ~HasConfig(type)
    THEN [cache |-> cache, localStorage |-> localStorage, threw |-> FALSE, stored |-> FALSE]
    ELSE LET key == generateKey(type, params)
             item == CachedItem(data, now, config[type].version, config[type].ttl)
         IN  [cache |-> cache,
              localStorage |-> IF writeFails THEN localStorage
                               ELSE MapSet(localStorage, StorageKey(key), JSONstringify(item)),
              threw |-> FALSE,
              stored |-> TRUE]

\* mutation: setItem runs first and outside the try, so its exception
\* reaches the caller before the Map is written
SetOutcome_StorageFirst(type, data, params, writeFails) ==
    IF ~HasConfig(type)
    THEN [cache |-> cache, localStorage |-> localStorage, threw |-> FALSE, stored |-> FALSE]
    ELSE LET key == generateKey(type, params)
             item == CachedItem(data, now, config[type].version, config[type].ttl)
         IN  IF writeFails
             THEN [cache |-> cache, localStorage |-> localStorage, threw |-> TRUE, stored |-> TRUE]
             ELSE [cache |-> MapSet(cache, key, item),
                   localStorage |-> MapSet(localStorage, StorageKey(key), JSONstringify(item)),
                   threw |-> FALSE,
                   stored |-> TRUE]

\* mutation: an entry the Map already holds is not overwritten
SetOutcome_FirstWins(type, data, params, writeFails) ==
    IF ~HasConfig(type)
    THEN [cache |-> cache, localStorage |-> localStorage, threw |-> FALSE, stored |-> FALSE]
    ELSE LET key == generateKey(type, params)
             item == IF MapHas(cache, key) THEN cache[key]
                     ELSE CachedItem(data, now, config[type].version, config[type].ttl)
         IN  [cache |-> MapSet(cache, key, item),
              localStorage |-> IF writeFails THEN localStorage
                               ELSE MapSet(localStorage, StorageKey(key), JSONstringify(item)),
              threw |-> FALSE,
              stored |-> TRUE]

\* the outcome of set(type, data, params): the two tiers as the call leaves
\* them and whether an exception reaches the caller.
\* writeFails: localStorage.setItem throws (quota exceeded, storage disabled)
SetOutcome(type, data, params, writeFails) ==
    IF ~HasConfig(type)
    THEN \* console.warn and return
         [cache |-> cache, localStorage |-> localStorage, threw |-> FALSE, stored |-> FALSE]
    ELSE LET key == generateKey(type, params)
             item == CachedItem(data, now, config[type].version, config[type].ttl)
         IN  [cache |-> MapSet(cache, key, item),
              localStorage |-> IF writeFails THEN localStorage
                               ELSE MapSet(localStorage, StorageKey(key), JSONstringify(item)),
              threw |-> FALSE,           \* the catch only logs
              stored |-> TRUE]

Set(type, data, params, writeFails) ==
    LET out == SetOutcome(type, data, params, writeFails)
        key == generateKey(type, params)
    IN  /\ cache' = out.cache
        /\ localStorage' = out.localStorage
        /\ tracked' = IF out.stored
                      THEN MapSet(tracked, key, [t0 |-> now, data |-> data, ttl |-> config[type].ttl])
                      ELSE tracked
        /\ hist' = IF out.stored
                   THEN [hist EXCEPT !.written = MapSet(@, key, [data |-> data, wfail |-> writeFails])]
                   ELSE hist
        /\ last' = [Did("set") EXCEPT !.type = type, !.params = params, !.data = data,
                                      !.threw = out.threw,
                                      !.wfail = (writeFails /\ out.stored)]
        /\ UNCHANGED <<now, config, keyIn, keyOut, hero, pending>>

(* cacheStore.clear *)
\* mutation: only the Map entry is deleted
ClearOutcome_MemoryOnly(type, params) ==
    [cache |-> MapDelete(cache, generateKey(type, params)),
     localStorage |-> localStorage]

\* mutation: only the localStorage record is removed
ClearOutcome_StorageOnly(type, params) ==
    [cache |-> cache,
     localStorage |-> MapDelete(localStorage, StorageKey(generateKey(type, params)))]

\* the two tiers as clear(type, params) leaves them
ClearOutcome(type, params) ==
    LET key == generateKey(type, params)
    IN  [cache |-> MapDelete(cache, key),
         localStorage |-> MapDelete(localStorage, StorageKey(key))]

Clear(type, params) ==
    LET out == ClearOutcome(type, params)
    IN  /\ cache' = out.cache
        /\ localStorage' = out.localStorage
        /\ tracked' = MapDelete(tracked, generateKey(type, params))
        /\ hist' = [hist EXCEPT !.fetched = MapDelete(@, generateKey(type, params)),
                                 !.written = MapDelete(@, generateKey(type, params))]
        /\ pending' = Cleared(pending, {generateKey(type, params)})
        /\ last' = [Did("clear") EXCEPT !.type = type, !.params = params, !.before = getStats]
        /\ UNCHANGED <<now, config, keyIn, keyOut, hero>>

\* mutation: every localStorage key is taken for a cache key
CacheKeysToClear_All(ls) == DOMAIN ls

\* the keys clearAll removes from localStorage
CacheKeysToClear(ls) == CacheKeys(ls)

(* cacheStore.clearAll *)
\* mutation: only the Map is cleared
ClearAll_MemoryOnly ==
    /\ cache' = EmptyMap
    /\ tracked' = EmptyMap
    /\ hist' = NoHist
    /\ pending' = Cleared(pending, {RequestKey(pending[i]) : i \in DOMAIN pending})
    /\ last' = [Did("clearAll") EXCEPT !.before = getStats]
    /\ UNCHANGED <<now, config, localStorage, keyIn, keyOut, hero>>

ClearAll ==
    /\ cache' = EmptyMap
    /\ localStorage' = Restrict(localStorage, (DOMAIN localStorage) \ CacheKeysToClear(localStorage))
    /\ tracked' = EmptyMap
    /\ hist' = NoHist
    /\ pending' = Cleared(pending, {RequestKey(pending[i]) : i \in DOMAIN pending})
    /\ last' = [Did("clearAll") EXCEPT !.before = getStats]
    /\ UNCHANGED <<now, config, keyIn, keyOut, hero>>

(* cacheStore.cleanupExpired *)
\* the memory sweep: entries whose own ttl has elapsed are deleted
SweepMemory(c, t) ==
    Restrict(c, {k \in DOMAIN c : ~(t - c[k].timestamp >= c[k].ttl)})

\* mutation: a record whose age equals its ttl is kept
SweepRemoves_Strict(text, t) ==
    LET parsed == JSONparse(text)
    IN  IF parsed.threw \/ parsed.isNull
        THEN TRUE
        ELSE t - parsed.item.timestamp > parsed.item.ttl

\* does the localStorage sweep remove a record holding this text?
SweepRemoves(text, t) ==
    LET parsed == JSONparse(text)
    IN  IF parsed.threw \/ parsed.isNull
        THEN TRUE                       \* catch: remove corrupted cache items
        ELSE t - parsed.item.timestamp >= parsed.item.ttl

SweepStorage(ls, t) ==
    Restrict(ls, {k \in DOMAIN ls : ~(startsWithCache(k) /\ SweepRemoves(ls[k], t))})

CleanupExpired ==
    /\ cache' = SweepMemory(cache, now)
    /\ localStorage' = SweepStorage(localStorage, now)
    /\ last' = Did("cleanupExpired")
    /\ UNCHANGED <<now, config, tracked, keyIn, keyOut, hero, pending, hist>>

(* cacheStore.getStats, the action *)
GetStats ==
    /\ last' = [Did("getStats") EXCEPT !.stats = getStats]
    /\ UNCHANGED <<now, config, cache, localStorage, tracked, keyIn, keyOut, hero, pending, hist>>

----------------------------------------------------------------------------
(* The environment *)


\* the clock advances
Tick ==
    /\ now < MaxTime
    /\ now' = now + 1
    /\ last' = Idle
    /\ UNCHANGED <<config, cache, localStorage, tracked, keyIn, keyOut, hero, pending, hist>>

\* A page load under policy table cfg, as the cache store sees it: the
\* Pinia store is created with an empty Map, the requests of the page that
\* is left are abandoned and the start-up plugin runs cleanupExpired().
\* (What the plugin then does with the hero store is HeroPageLoad.)
PageLoad(cfg, op) ==
    /\ config' = cfg
    /\ cache' = SweepMemory(EmptyMap, now)
    /\ localStorage' = SweepStorage(localStorage, now)
    /\ tracked' = EmptyMap
    /\ pending' = NoPending
    /\ last' = Did(op)
    /\ UNCHANGED <<now, keyIn, keyOut, hero, hist>>

\* the user reloads the page
Restart == PageLoad(config, "restart")

\* a new build with another policy table is deployed and loaded
Redeploy(cfg) ==
    /\ cfg # config
    /\ PageLoad(cfg, "redeploy")

\* another writer (another tab, an older build, the user) overwrites a record
Corrupt(skey, text) ==
    /\ skey \in CacheKeys(localStorage)
    /\ localStorage[skey] # text
    /\ localStorage' = MapSet(localStorage, skey, text)
    /\ last' = Did("corrupt")
    /\ UNCHANGED <<now, config, cache, tracked, keyIn, keyOut, hero, pending, hist>>

----------------------------------------------------------------------------
(* Specification of the store *)

NoKeyIn == [type |-> "-", p1 |-> <<>>, p2 |-> <<>>]
NoKeyOut == [done |-> FALSE, threw |-> FALSE, k1 |-> <<>>, k2 |-> <<>>]

\* state: () => ({ heroConstants: null, isLoadingConstants: false,
\*                 constantsError: null, lastFetched: null })
Null == "null"
\* null where a number is expected (lastFetched)
NullTime == 0 - 1
HeroInitial ==
    [heroConstants |-> Null, isLoadingConstants |-> FALSE,
     constantsError |-> Null, lastFetched |-> NullTime]

Init ==
    /\ now = 0
    /\ config = DEFAULT_CACHE_CONFIGS
    /\ cache = EmptyMap
    /\ localStorage = EmptyMap
    /\ last = Idle
    /\ tracked = EmptyMap
    /\ keyIn = NoKeyIn
    /\ keyOut = NoKeyOut
    /\ hero = HeroInitial
    /\ pending = NoPending
    /\ hist = NoHist

Next ==
    \/ \E r \in GetRequests : Get(r[1], r[2])
    \/ \E r \in SetRequests, d \in Payloads, wf \in BOOLEAN : Set(r[1], d, r[2], wf)
    \/ \E r \in SetRequests : Clear(r[1], r[2])
    \/ ClearAll
    \/ CleanupExpired
    \/ GetStats
    \/ Tick
    \/ Restart
    \/ \E cfg \in Builds : Redeploy(cfg)
    \/ \E skey \in DOMAIN localStorage, text \in {EmptyText, GarbageText, NullText} : Corrupt(skey, text)

Spec == Init /\ [][Next]_vars

----------------------------------------------------------------------------
(* Specification of the key codec: generateKey applied to pairs of         *)
(* parameter objects of the shapes the call sites build, and the store     *)
(* written under the first object and read under the second.               *)

KeyTypes == {"player_profile", "player_matches"}

\* accountId: string | number at the call sites; the objects and the array
\* stand for values the type Record<string, any> also lets through
AccountIds ==
    { Num(42), Num(43), Str(<<"4", "2">>),
      Str(<<"4", "2", "&", "limit", "=", "2", "0">>),
      Obj("a"), Obj("b"), Arr(<<4, 2>>) }

Limits == { Num(20), Num(5) }

Queries == { Str(<<"a">>), Str(<<"4", "2">>) }

KeyParams ==
    {<<>>}
    \cup { <<<<"accountId", a>>>> : a \in AccountIds }
    \cup { <<<<"accountId", a>>, <<"limit", l>>>> : a \in AccountIds, l \in Limits }
    \cup { <<<<"limit", l>>, <<"accountId", a>>>> : a \in AccountIds, l \in Limits }
    \cup { <<<<"query", q>>>> : q \in Queries }

KeyInit ==
    /\ now = 0
    /\ config = DEFAULT_CACHE_CONFIGS
    /\ cache = EmptyMap
    /\ localStorage = EmptyMap
    /\ last = Idle
    /\ tracked = EmptyMap
    /\ keyIn \in [type : KeyTypes, p1 : KeyParams, p2 : KeyParams]
    /\ keyOut = NoKeyOut
    /\ hero = HeroInitial
    /\ pending = NoPending
    /\ hist = NoHist

\* generateKey is applied to both objects; it has no throw statement
Encode ==
    /\ ~keyOut.done
    /\ keyOut' = [done |-> TRUE, threw |-> FALSE,
                  k1 |-> generateKey(keyIn.type, keyIn.p1),
                  k2 |-> generateKey(keyIn.type, keyIn.p2)]
    /\ UNCHANGED <<now, config, cache, localStorage, last, tracked, keyIn, hero, pending, hist>>

\* a consumer stores a payload under the first object ...
KeySet == \E d \in Payloads : Set(keyIn.type, d, keyIn.p1, FALSE)

\* ... and a consumer reads under the second
KeyGet == Get(keyIn.type, keyIn.p2)

KeyNext == Encode \/ KeySet \/ KeyGet

SpecKey == KeyInit /\ [][KeyNext]_vars

----------------------------------------------------------------------------
(* Vocabulary of the properties *)

KeyOf(rec) == generateKey(rec.type, rec.params)

\* the validity of an entry as the data model states it: the entry's version
\* is the category's current one and its own ttl has not elapsed
EntryValid(type, item) ==
    /\ type \in DOMAIN config
    /\ item.version = config[type].version
    /\ now - item.timestamp < item.ttl

\* the well-formed record localStorage holds for a key, if any
HasRecord(key) ==
    /\ StorageKey(key) \in DOMAIN localStorage
    /\ localStorage[StorageKey(key)].syntax = "item"

RecordOf(key) == localStorage[StorageKey(key)].item

\* the fast tier holds a valid entry for the key
FastValid(type, key) == key \in DOMAIN cache /\ EntryValid(type, cache[key])

ValueAt(params, name) ==
    LET i == CHOOSE j \in 1..Len(params) : params[j][1] = name IN params[i][2]

SameNames(p1, p2) == Len(p1) = Len(p2) /\ ParamNames(p1) = ParamNames(p2)

AllPrimitive(params) == \A i \in 1..Len(params) : IsPrimitive(params[i][2])

IsPermutation(p1, p2) ==
    /\ Len(p1) = Len(p2)
    /\ {p1[i] : i \in 1..Len(p1)} = {p2[i] : i \in 1..Len(p2)}

----------------------------------------------------------------------------
(* Properties *)

\* C1: round trip. For every registered category, set(C, X, P) immediately
\* followed by get(C, P) returns X.
C1_RoundTrip ==
    [][ ( /\ last.op = "set" /\ HasConfig(last.type)
          /\ last'.op = "get" /\ last'.type = last.type /\ last'.params = last.params )
        => last'.ret = last.data ]_vars

\* a get that was answered from the entry a set of the same instant stored
C1_Witness ==
    /\ last.op = "get" /\ last.ret \in Payloads
    /\ KeyOf(last) \in DOMAIN tracked
    /\ tracked[KeyOf(last)].t0 = now
    /\ tracked[KeyOf(last)].data = last.ret

\* C2 (as claimed): TTL expiry. If set(C, X, P) happened at t0 under TTL T and
\* no later set, clear or version change touched the key, every get(C, P) at
\* t with t - t0 < T returns X and every get with t - t0 >= T returns absent.
C2_TtlExpiry ==
    (last.op = "get" /\ KeyOf(last) \in DOMAIN tracked) =>
        LET tr == tracked[KeyOf(last)]
        IN  /\ (now - tr.t0 < tr.ttl => last.ret = tr.data)
            /\ (now - tr.t0 >= tr.ttl => last.ret = Absent)

\* C3: version invalidation. Whatever get returns comes from an entry whose
\* version is the category's configured version: an entry of another
\* version, in the Map or in localStorage, is treated as absent even while
\* its TTL has not elapsed.
C3_VersionInvalidation ==
    [][ last'.op = "get" =>
          LET type == last'.type
              key == KeyOf(last')
          IN  \/ last'.ret = Absent
              \/ /\ HasConfig(type) /\ key \in DOMAIN cache
                 /\ cache[key].version = config[type].version
                 /\ cache[key].data = last'.ret
              \/ /\ HasConfig(type) /\ HasRecord(key)
                 /\ RecordOf(key).version = config[type].version
                 /\ RecordOf(key).data = last'.ret ]_vars

\* get met a record of another version whose TTL had not elapsed, and answered absent
C3_Witness ==
    /\ last.op = "get" /\ last.path = "removed" /\ last.ret = Absent
    /\ last.seen.version # config[last.type].version
    /\ now - last.seen.timestamp < last.seen.ttl

\* C6 (as claimed): set for a category without a policy surfaces an error to
\* the caller.
C6_UnregisteredRejected ==
    (last.op = "set" /\ ~HasConfig(last.type)) => last.threw

\* C7: a set whose localStorage write fails returns normally, the new entry
\* is in the Map, and a get for the key returns the new payload.
C7_WriteFailureNonFatal ==
    (last.op = "set" /\ last.wfail) =>
        /\ ~last.threw
        /\ KeyOf(last) \in DOMAIN cache
        /\ cache[KeyOf(last)].data = last.data
        /\ GetOutcome(last.type, last.params).ret = last.data

\* the write failed and localStorage does not hold the new entry
C7_Witness ==
    /\ last.op = "set" /\ last.wfail
    /\ ~(HasRecord(KeyOf(last)) /\ RecordOf(KeyOf(last)) = cache[KeyOf(last)])

\* C9: tier fallback with promotion. When the Map has no valid entry for the
\* key and localStorage holds a valid record, get returns its payload, puts
\* the record unchanged into the Map and leaves localStorage alone; the Map
\* entry is then valid, so the next get is a memory hit.
C9_Promotion ==
    [][ \A r \in GetRequests :
          LET type == r[1]
              key == generateKey(r[1], r[2])
          IN  ( /\ last'.op = "get" /\ last'.type = type /\ last'.params = r[2]
                /\ ~FastValid(type, key)
                /\ HasRecord(key) /\ EntryValid(type, RecordOf(key)) )
              => /\ last'.ret = RecordOf(key).data
                 /\ key \in DOMAIN cache'
                 /\ cache'[key] = RecordOf(key)
                 /\ localStorage' = localStorage
                 /\ (GetOutcome(type, r[2]).path)' = "memory" ]_vars

\* get answered from localStorage when the Map held nothing for the key
C9_Witness ==
    /\ last.op = "get" /\ last.path = "localStorage"
    /\ last.ret \in Payloads
    /\ KeyOf(last) \notin DOMAIN tracked

\* C10: when the Map has no valid entry for the key and localStorage holds a
\* record that is invalid (TTL elapsed or another version), get returns
\* absent and removes the record, so getStats counts one record less.
C10_InvalidRecordRemoved ==
    [][ \A r \in GetRequests :
          LET type == r[1]
              key == generateKey(r[1], r[2])
          IN  ( /\ last'.op = "get" /\ last'.type = type /\ last'.params = r[2]
                /\ ~FastValid(type, key)
                /\ HasRecord(key) /\ ~EntryValid(type, RecordOf(key)) )
              => /\ last'.ret = Absent
                 /\ StorageKey(key) \notin DOMAIN localStorage'
                 /\ getStats'.localStorageItems = getStats.localStorageItems - 1 ]_vars

\* get removed a record whose TTL had elapsed under an unchanged version
C10_Witness ==
    /\ last.op = "get" /\ last.path = "removed" /\ last.ret = Absent
    /\ last.seen.version = config[last.type].version
    /\ now - last.seen.timestamp >= last.seen.ttl
    /\ StorageKey(KeyOf(last)) \notin DOMAIN localStorage

\* C4 (as claimed): key isolation. For a fixed category, two parameter
\* objects that differ in at least one value are encoded to different keys,
\* so get under the second never returns what set stored under the first.
C4_KeyIsolation ==
    LET p1 == keyIn.p1
        p2 == keyIn.p2
        differ == /\ SameNames(p1, p2) /\ AllPrimitive(p1) /\ AllPrimitive(p2)
                  /\ \E n \in ParamNames(p1) : ValueAt(p1, n) # ValueAt(p2, n)
    IN  /\ (keyOut.done /\ differ) => keyOut.k1 # keyOut.k2
        /\ (last.op = "get" /\ differ) => last.ret = Absent

\* C4 (amended): for the parameter shapes of the call sites, two objects
\* with the same names and primitive values that differ in the text
\* String(value) of at least one value are encoded to different keys, and
\* get under the second returns absent whatever was stored under the first.
C4_KeyIsolationByText ==
    LET p1 == keyIn.p1
        p2 == keyIn.p2
        differ == /\ SameNames(p1, p2) /\ AllPrimitive(p1) /\ AllPrimitive(p2)
                  /\ \E n \in ParamNames(p1) :
                        TemplateString(ValueAt(p1, n)) # TemplateString(ValueAt(p2, n))
    IN  /\ (keyOut.done /\ differ) => keyOut.k1 # keyOut.k2
        /\ (last.op = "get" /\ differ) => last.ret = Absent

\* accountId 42 was stored, accountId 43 was read and found absent
C4_Witness ==
    /\ keyOut.done /\ last.op = "get" /\ last.ret = Absent
    /\ keyIn.p1 = <<<<"accountId", Num(42)>>>>
    /\ keyIn.p2 = <<<<"accountId", Num(43)>>>>
    /\ keyOut.k1 \in DOMAIN cache

\* C5: the key does not depend on the insertion order of the parameters, and
\* an empty parameter object yields the bare category name.
C5_OrderIndependent ==
    keyOut.done =>
        /\ IsPermutation(keyIn.p1, keyIn.p2) => keyOut.k1 = keyOut.k2
        /\ keyIn.p1 = <<>> => keyOut.k1 = <<keyIn.type>>

\* two different insertion orders of the same entries were encoded
C5_Witness ==
    /\ keyOut.done
    /\ IsPermutation(keyIn.p1, keyIn.p2)
    /\ keyIn.p1 # keyIn.p2

\* C8 (as claimed): encoding a parameter object that holds a non-primitive
\* value raises an error.
C8_NonPrimitiveRejected ==
    (keyOut.done /\ ~AllPrimitive(keyIn.p1)) => keyOut.threw

----------------------------------------------------------------------------
(* Specification of the store holding two keys of one category, next to    *)
(* the record the hero store keeps in the same localStorage; localStorage  *)
(* has room, no write to it fails.                                         *)

\* heroStore: const CACHE_KEY = 'dota2_hero_constants', CACHE_VERSION = '1.0'
CACHE_KEY == <<"dota2_hero_constants">>
CACHE_VERSION == "1.0"

\* JSON.stringify({ data, timestamp, version }): the record has no ttl
\* property, the ttl field of the item is not used
HeroRecord(data, timestamp) ==
    JSONstringify(CachedItem(data, timestamp, CACHE_VERSION, 0))

PairRequests == { <<"player_matches", P42>>, <<"player_matches", P43>> }

\* the hero store may or may not have saved its record before
PairInit ==
    /\ now = 0
    /\ config = DEFAULT_CACHE_CONFIGS
    /\ cache = EmptyMap
    /\ localStorage \in {EmptyMap, MapSet(EmptyMap, CACHE_KEY, HeroRecord("H", 0))}
    /\ last = Idle
    /\ tracked = EmptyMap
    /\ keyIn = NoKeyIn
    /\ keyOut = NoKeyOut
    /\ hero = HeroInitial
    /\ pending = NoPending
    /\ hist = NoHist

PairNext ==
    \/ \E r \in PairRequests : Get(r[1], r[2])
    \/ \E r \in PairRequests, d \in Payloads : Set(r[1], d, r[2], FALSE)
    \/ \E r \in PairRequests : Clear(r[1], r[2])
    \/ ClearAll
    \/ CleanupExpired
    \/ GetStats
    \/ Tick
    \/ Restart

SpecPair == PairInit /\ [][PairNext]_vars

----------------------------------------------------------------------------
(* Specification of a consumer: usePlayerData.fetchPlayerMatches reading   *)
(* through the store, with its upstream requests in flight.                *)

\* the most requests in flight at once
MaxInflight == 2

\* fetchPlayerMatches(42), limit defaulting to 20; a payload stands for
\* data.slice(0, limit)
FetchRequests == { <<"player_matches", P42>> }

RemoveAt(seq, i) == [j \in 1..(Len(seq) - 1) |-> IF j < i THEN seq[j] ELSE seq[j + 1]]

\* get served the call from one of the two tiers
Served(rec) == rec.path \in {"memory", "localStorage"}

\* mutation: the call does not consult the cache
FetchCall_NoCache(type, params) ==
    /\ Len(pending) < MaxInflight
    /\ pending' = LET key == generateKey(type, params)
                  IN  Append(Overlapped(pending, key),
                             Request("fetchPlayerMatches", type, params,
                                     \E i \in DOMAIN pending : RequestKey(pending[i]) = key))
    /\ last' = [Did("fetch") EXCEPT !.type = type, !.params = params, !.ret = Absent,
                                    !.path = "miss", !.by = "fetchPlayerMatches"]
    /\ UNCHANGED <<now, config, cache, localStorage, tracked, keyIn, keyOut, hero, hist>>

\* a consumer's call up to its await: cacheStore.get, and on a hit the
\* return; on a miss the request goes out
ConsumerCall(consumer, type, params) ==
    LET out == GetOutcome(type, params)
    IN  /\ out.ret = Absent => Len(pending) < MaxInflight
        /\ cache' = out.cache
        /\ localStorage' = out.localStorage
        /\ pending' = IF out.ret # Absent THEN pending
                      ELSE LET key == generateKey(type, params)
                           IN  Append(Overlapped(pending, key),
                                      Request(consumer, type, params,
                                              \E i \in DOMAIN pending : RequestKey(pending[i]) = key))
        /\ last' = [Did("fetch") EXCEPT !.type = type, !.params = params, !.ret = out.ret,
                                        !.path = out.path, !.seen = out.seen, !.by = consumer]
        /\ UNCHANGED <<now, config, tracked, keyIn, keyOut, hero, hist>>

(* usePlayerData.fetchPlayerMatches *)
FetchCall(type, params) == ConsumerCall("fetchPlayerMatches", type, params)

\* the request resolves: cacheStore.set(type, data, params), return data
FetchResolved(i, data, writeFails) ==
    /\ i \in 1..Len(pending)
    /\ LET type == pending[i].type
           params == pending[i].params
           key == generateKey(type, params)
           out == SetOutcome(type, data, params, writeFails)
       IN  /\ cache' = out.cache
           /\ localStorage' = out.localStorage
           /\ tracked' = IF out.stored
                         THEN MapSet(tracked, key, [t0 |-> now, data |-> data, ttl |-> config[type].ttl])
                         ELSE tracked
           /\ hist' = [hist EXCEPT !.fetched =
                          MapSet(@, key, [t0 |-> now, data |-> data,
                                          version |-> IF out.stored THEN config[type].version ELSE "-",
                                          ttl |-> IF out.stored THEN config[type].ttl ELSE 0,
                                          wfail |-> (writeFails /\ out.stored)]),
                                   !.written =
                          IF out.stored THEN MapSet(@, key, [data |-> data, wfail |-> writeFails])
                          ELSE @]
           /\ last' = [Did("fetchResolved") EXCEPT !.type = type, !.params = params,
                                                   !.data = data, !.ret = data,
                                                   !.req = pending[i],
                                                   !.by = pending[i].consumer,
                                                   !.wfail = (writeFails /\ out.stored)]
    /\ pending' = RemoveAt(pending, i)
    /\ UNCHANGED <<now, config, keyIn, keyOut, hero>>

\* the request is rejected: console.error, throw error
FetchRejected(i) ==
    /\ i \in 1..Len(pending)
    /\ pending' = RemoveAt(pending, i)
    /\ last' = [Did("fetchRejected") EXCEPT !.type = pending[i].type,
                                            !.params = pending[i].params, !.threw = TRUE,
                                            !.req = pending[i], !.by = pending[i].consumer]
    /\ UNCHANGED <<now, config, cache, localStorage, tracked, keyIn, keyOut, hero, hist>>

FetchNext ==
    \/ \E r \in FetchRequests : FetchCall(r[1], r[2])
    \/ \E i \in 1..MaxInflight, d \in Payloads, wf \in BOOLEAN : FetchResolved(i, d, wf)
    \/ \E i \in 1..MaxInflight : FetchRejected(i)
    \/ \E r \in FetchRequests : Clear(r[1], r[2])
    \/ ClearAll
    \/ CleanupExpired
    \/ Tick
    \/ Restart
    \/ \E cfg \in Builds : Redeploy(cfg)

SpecFetch == Init /\ [][FetchNext]_vars

----------------------------------------------------------------------------
(* Specification of the consumers that share the store: fetchPlayerMatches *)
(* of usePlayerData, and fetchRecentMatches and fetchHeroStats of          *)
(* usePlayerAnalytics.                                                     *)

\* cacheStore.set('hero_stats', data, {}, 120): "Cache for 2 hours"
HeroStatsTtl == (120 * 60 * 1000) \div MsPerTick

\* the consumers with the category and the parameters they pass to the store
ShareConsumers ==
    { <<"fetchPlayerMatches", "player_matches", P42>>,
      <<"fetchRecentMatches", "player_matches", P42>>,
      <<"fetchHeroStats", "hero_stats", <<>>>> }

\* the payloads a consumer's endpoint answers with: recentMatches truncated
\* to limit, matches with their detailed stats, heroStats
ResponsesOf(consumer) ==
    CASE consumer = "fetchPlayerMatches" -> Payloads
      [] consumer = "fetchRecentMatches" -> {"M"}
      [] consumer = "fetchHeroStats"     -> {"S"}

ShareNext ==
    \/ \E c \in ShareConsumers : ConsumerCall(c[1], c[2], c[3])
    \/ \E i \in 1..MaxInflight, wf \in BOOLEAN :
          /\ i <= Len(pending)
          /\ \E d \in ResponsesOf(pending[i].consumer) : FetchResolved(i, d, wf)
    \/ \E i \in 1..MaxInflight : FetchRejected(i)
    \/ ClearAll
    \/ Tick
    \/ Restart

SpecShare == Init /\ [][ShareNext]_vars

----------------------------------------------------------------------------
(* Specification of the hero store: fetchHeroConstants with its request in *)
(* flight, the record it keeps in localStorage, the handlers of the cache  *)
(* management page and the start-up plugin.                                *)

\* const CACHE_DURATION = 24 * 60 * 60 * 1000
CACHE_DURATION == (24 * 60 * 60 * 1000) \div MsPerTick

\* the hero store's clock is observed every twelve hours
HalfDay == CACHE_DURATION \div 2

\* responses of /constants/heroes
HeroPayloads == {"H", "G"}

\* a record written by a build with another CACHE_VERSION
OldHeroRecord == JSONstringify(CachedItem("H", 0, "0.9", 0))

\* getters.isCacheValid; a timestamp is never the falsy 0, the model's time 0
\* stands for some instant after the epoch
heroIsCacheValid(h, t) ==
    IF h.lastFetched = NullTime THEN FALSE
    ELSE t - h.lastFetched < CACHE_DURATION

\* loadFromCache(): what it returns, the store and localStorage as it leaves them
loadFromCache(h, ls, t) ==
    LET no == [ok |-> FALSE, hero |-> h, localStorage |-> ls]
        removed == [no EXCEPT !.localStorage = MapDelete(ls, CACHE_KEY)]
    IN  IF ~MapHas(ls, CACHE_KEY) \/ ls[CACHE_KEY].syntax = "empty"
        THEN no
        ELSE LET parsed == JSONparse(ls[CACHE_KEY])
             IN  IF parsed.threw \/ parsed.isNull
                 THEN removed                  \* catch: removeItem
                 ELSE IF \/ parsed.item.version # CACHE_VERSION
                         \/ t - parsed.item.timestamp > CACHE_DURATION
                 THEN removed
                 ELSE [ok |-> TRUE,
                       hero |-> [h EXCEPT !.heroConstants = parsed.item.data,
                                          !.lastFetched = parsed.item.timestamp],
                       localStorage |-> ls]

\* mutation: a call does not look at isLoadingConstants
FetchStart_NoGuard(forceRefresh, h, ls, t) ==
    LET lc == IF forceRefresh
              THEN [ok |-> FALSE, hero |-> h, localStorage |-> ls]
              ELSE loadFromCache(h, ls, t)
        out == [hero |-> lc.hero, localStorage |-> lc.localStorage,
                path |-> "loaded", request |-> FALSE]
    IN  IF lc.ok THEN out
        ELSE IF ~forceRefresh /\ lc.hero.heroConstants # Null /\ heroIsCacheValid(lc.hero, t)
        THEN [out EXCEPT !.path = "valid"]
        ELSE [out EXCEPT !.path = "request", !.request = TRUE,
                         !.hero = [lc.hero EXCEPT !.isLoadingConstants = TRUE,
                                                  !.constantsError = Null]]

\* mutation: a forced call loads from localStorage like any other call
FetchStart_ForceLoads(forceRefresh, h, ls, t) ==
    LET lc == loadFromCache(h, ls, t)
        out == [hero |-> lc.hero, localStorage |-> lc.localStorage,
                path |-> "loaded", request |-> FALSE]
    IN  IF lc.ok THEN out
        ELSE IF ~forceRefresh /\ lc.hero.heroConstants # Null /\ heroIsCacheValid(lc.hero, t)
        THEN [out EXCEPT !.path = "valid"]
        ELSE IF lc.hero.isLoadingConstants
        THEN [out EXCEPT !.path = "busy"]
        ELSE [out EXCEPT !.path = "request", !.request = TRUE,
                         !.hero = [lc.hero EXCEPT !.isLoadingConstants = TRUE,
                                                  !.constantsError = Null]]

\* fetchHeroConstants(forceRefresh) up to its await: the store and
\* localStorage as it leaves them, the branch taken, and whether the request
\* goes out
FetchStart(forceRefresh, h, ls, t) ==
    LET lc == IF forceRefresh
              THEN [ok |-> FALSE, hero |-> h, localStorage |-> ls]
              ELSE loadFromCache(h, ls, t)
        out == [hero |-> lc.hero, localStorage |-> lc.localStorage,
                path |-> "loaded", request |-> FALSE]
    IN  IF lc.ok THEN out
        ELSE IF ~forceRefresh /\ lc.hero.heroConstants # Null /\ heroIsCacheValid(lc.hero, t)
        THEN [out EXCEPT !.path = "valid"]
        ELSE IF lc.hero.isLoadingConstants
        THEN [out EXCEPT !.path = "busy"]
        ELSE [out EXCEPT !.path = "request", !.request = TRUE,
                         !.hero = [lc.hero EXCEPT !.isLoadingConstants = TRUE,
                                                  !.constantsError = Null]]

HeroRequest(forceRefresh) == [type |-> "hero_constants", forced |-> forceRefresh]

ForceFlag(forceRefresh) == IF forceRefresh THEN "forceRefresh" ELSE "-"

(* heroStore.fetchHeroConstants, called by a page *)
FetchHeroConstants(forceRefresh) ==
    LET out == FetchStart(forceRefresh, hero, localStorage, now)
    IN  /\ hero' = out.hero
        /\ localStorage' = out.localStorage
        /\ pending' = IF out.request THEN Append(pending, HeroRequest(forceRefresh)) ELSE pending
        /\ last' = [Did("fetchHeroConstants") EXCEPT !.type = ForceFlag(forceRefresh),
                                                     !.path = out.path]
        /\ UNCHANGED <<now, config, cache, tracked, keyIn, keyOut, hist>>

\* the request resolves: heroConstants = data, saveToCache(data), finally
HeroResolved(data, writeFails) ==
    /\ pending # NoPending
    /\ hero' = [hero EXCEPT !.heroConstants = data,
                            !.lastFetched = IF writeFails THEN @ ELSE now,
                            !.isLoadingConstants = FALSE]
    /\ localStorage' = IF writeFails THEN localStorage
                       ELSE MapSet(localStorage, CACHE_KEY, HeroRecord(data, now))
    /\ pending' = Tail(pending)
    /\ last' = [Did("heroResolved") EXCEPT !.type = ForceFlag(Head(pending).forced),
                                           !.data = data, !.wfail = writeFails]
    /\ UNCHANGED <<now, config, cache, tracked, keyIn, keyOut, hist>>

\* the request is rejected: constantsError is set, heroConstants = null, finally
HeroRejected ==
    /\ pending # NoPending
    /\ hero' = [hero EXCEPT !.heroConstants = Null,
                            !.constantsError = "Failed to load hero constants",
                            !.isLoadingConstants = FALSE]
    /\ pending' = Tail(pending)
    /\ last' = [Did("heroRejected") EXCEPT !.type = ForceFlag(Head(pending).forced)]
    /\ UNCHANGED <<now, config, cache, localStorage, tracked, keyIn, keyOut, hist>>

\* the cache management page: cacheStore.clearAll(); heroStore.clearCache()
ClearAllCache ==
    /\ cache' = EmptyMap
    /\ localStorage' =
          MapDelete(Restrict(localStorage, (DOMAIN localStorage) \ CacheKeysToClear(localStorage)),
                    CACHE_KEY)
    /\ tracked' = EmptyMap
    /\ hist' = NoHist
    /\ hero' = [hero EXCEPT !.heroConstants = Null, !.lastFetched = NullTime]
    /\ last' = [Did("clearAllCache") EXCEPT !.before = getStats]
    /\ UNCHANGED <<now, config, pending, keyIn, keyOut>>

\* twelve hours pass
HeroTick ==
    /\ now < MaxTime * HalfDay
    /\ now' = now + HalfDay
    /\ last' = Idle
    /\ UNCHANGED <<config, cache, localStorage, tracked, keyIn, keyOut, hero, pending, hist>>

\* the store as the page receives it: created in the browser ("none"), or
\* hydrated from the server's render, where the plugin's fetch resolved
\* with data or was rejected and saveToCache did nothing
Hydrated(server, data) ==
    CASE server = "none"     -> HeroInitial
      [] server = "resolved" -> [HeroInitial EXCEPT !.heroConstants = data]
      [] server = "rejected" -> [HeroInitial EXCEPT !.constantsError = "Failed to load hero constants"]

\* A page load: the requests of the page that is left are abandoned, the
\* stores are created, and the plugin runs cacheStore.cleanupExpired() and,
\* if the store holds no heroes, heroStore.fetchHeroConstants().
HeroPageLoad(server, data) ==
    LET h0 == Hydrated(server, data)
        ls0 == SweepStorage(localStorage, now)
        calls == h0.heroConstants = Null /\ ~h0.isLoadingConstants
        out == FetchStart(FALSE, h0, ls0, now)
    IN  /\ cache' = SweepMemory(EmptyMap, now)
        /\ tracked' = EmptyMap
        /\ hero' = IF calls THEN out.hero ELSE h0
        /\ localStorage' = IF calls THEN out.localStorage ELSE ls0
        /\ pending' = IF calls /\ out.request THEN <<HeroRequest(FALSE)>> ELSE NoPending
        /\ last' = [Did("pageLoad") EXCEPT !.path = IF calls THEN out.path ELSE "-"]
        /\ UNCHANGED <<now, config, keyIn, keyOut, hist>>

\* another tab of the application, or an older build, writes the hero record
HeroForeignWrite(text) ==
    /\ ~(MapHas(localStorage, CACHE_KEY) /\ localStorage[CACHE_KEY] = text)
    /\ localStorage' = MapSet(localStorage, CACHE_KEY, text)
    /\ last' = Did("foreignWrite")
    /\ UNCHANGED <<now, config, cache, tracked, keyIn, keyOut, hero, pending, hist>>

\* the first page load has happened, on an empty localStorage
HeroInit ==
    /\ now = 0
    /\ config = DEFAULT_CACHE_CONFIGS
    /\ cache = EmptyMap
    /\ localStorage = EmptyMap
    /\ last = Idle
    /\ tracked = EmptyMap
    /\ keyIn = NoKeyIn
    /\ keyOut = NoKeyOut
    /\ \/ /\ hero = [HeroInitial EXCEPT !.isLoadingConstants = TRUE]
          /\ pending = <<HeroRequest(FALSE)>>
       \/ /\ hero = Hydrated("resolved", "H")
          /\ pending = NoPending
    /\ hist = NoHist

HeroNext ==
    \/ \E f \in BOOLEAN : FetchHeroConstants(f)
    \/ \E d \in HeroPayloads, wf \in BOOLEAN : HeroResolved(d, wf)
    \/ HeroRejected
    \/ ClearAllCache
    \/ HeroTick
    \/ \E sv \in {"none", "resolved", "rejected"}, d \in HeroPayloads : HeroPageLoad(sv, d)
    \/ \E text \in {GarbageText, OldHeroRecord} \cup {HeroRecord(d, now) : d \in HeroPayloads} :
          HeroForeignWrite(text)

SpecHero == HeroInit /\ [][HeroNext]_vars

----------------------------------------------------------------------------
(* Properties of the sweep, the policy and the fast path *)

\* the category a storage key belongs to
TypeOfStorageKey(skey) == SplitFirst(Tail(skey))[1]

\* C11 (as claimed): an undecodable localStorage record is never surfaced as
\* an error, and the get or the cleanupExpired that meets it removes it.
C11_CorruptRecordEvicted ==
    /\ last.op \in {"get", "cleanupExpired"} => ~last.threw
    /\ (last.op = "get" /\ last.path # "memory") =>
          \/ StorageKey(KeyOf(last)) \notin DOMAIN localStorage
          \/ localStorage[StorageKey(KeyOf(last))].syntax = "item"
    /\ last.op = "cleanupExpired" =>
          \A skey \in CacheKeys(localStorage) : localStorage[skey].syntax = "item"

\* C12 (as claimed): after cleanupExpired no tier holds an invalid entry
\* (TTL elapsed, or a version other than the category's current one).
C12_RemovesAllInvalid ==
    last.op = "cleanupExpired" =>
        /\ \A key \in DOMAIN cache : EntryValid(SplitFirst(key)[1], cache[key])
        /\ \A skey \in CacheKeys(localStorage) :
              /\ localStorage[skey].syntax = "item"
              /\ EntryValid(TypeOfStorageKey(skey), localStorage[skey].item)

\* C12 (amended): cleanupExpired removes from both tiers exactly the entries
\* whose own ttl has elapsed and the undecodable records, whatever their
\* version; every entry that stays is unchanged.
C12_RemovesExpiredOnly ==
    [][ last'.op = "cleanupExpired" =>
          /\ DOMAIN cache' = {k \in DOMAIN cache : now - cache[k].timestamp < cache[k].ttl}
          /\ \A k \in DOMAIN cache' : cache'[k] = cache[k]
          /\ DOMAIN localStorage' =
                {sk \in DOMAIN localStorage :
                    startsWithCache(sk) =>
                        /\ localStorage[sk].syntax = "item"
                        /\ now - localStorage[sk].item.timestamp < localStorage[sk].item.ttl}
          /\ \A sk \in DOMAIN localStorage' : localStorage'[sk] = localStorage[sk] ]_vars

\* after cleanupExpired a record of another version, not yet expired, is still stored
C12_Witness ==
    /\ last.op = "cleanupExpired"
    /\ \E skey \in CacheKeys(localStorage) :
          /\ localStorage[skey].syntax = "item"
          /\ localStorage[skey].item.version # config[TypeOfStorageKey(skey)].version
          /\ now - localStorage[skey].item.timestamp < localStorage[skey].item.ttl

\* C16 (as claimed): get validates the age of an entry against the ttl of
\* the current policy, so nothing older than that ttl is returned.
C16_CurrentPolicyTtl ==
    (last.op = "get" /\ last.ret # Absent) =>
        now - cache[KeyOf(last)].timestamp < config[last.type].ttl

\* C16 (amended): get validates the age of an entry against the ttl stamped
\* into it when it was stored: an entry of the current version is returned
\* exactly while now - timestamp < its own ttl, also after the policy's ttl
\* was shortened.
C16_StampedTtl ==
    [][ \A r \in GetRequests :
          LET type == r[1]
              key == generateKey(r[1], r[2])
              e == IF FastValid(type, key) THEN cache[key]
                   ELSE IF HasRecord(key) THEN RecordOf(key) ELSE NoItem
          IN  ( /\ last'.op = "get" /\ last'.type = type /\ last'.params = r[2]
                /\ HasConfig(type) /\ e # NoItem
                /\ e.version = config[type].version )
              => (last'.ret = e.data <=> now - e.timestamp < e.ttl) ]_vars

\* get returned an entry that is older than the ttl of the current policy
C16_Witness ==
    /\ last.op = "get" /\ last.ret \in Payloads
    /\ now - cache[KeyOf(last)].timestamp >= config[last.type].ttl
    /\ now - cache[KeyOf(last)].timestamp < cache[KeyOf(last)].ttl

\* C20: fast-path hit. When the Map holds a valid entry for the key, get
\* returns its payload, reads nothing from localStorage and leaves both
\* tiers as they were, whatever localStorage holds for the key.
C20_FastPathNoIO ==
    [][ \A r \in GetRequests :
          LET type == r[1]
              key == generateKey(r[1], r[2])
          IN  ( /\ last'.op = "get" /\ last'.type = type /\ last'.params = r[2]
                /\ FastValid(type, key) )
              => /\ last'.ret = cache[key].data
                 /\ last'.path = "memory" /\ last'.seen = NoItem
                 /\ cache' = cache
                 /\ localStorage' = localStorage ]_vars

\* a memory hit while localStorage holds no record, or another one, for the key
C20_Witness ==
    /\ last.op = "get" /\ last.path = "memory"
    /\ ~(HasRecord(KeyOf(last)) /\ RecordOf(KeyOf(last)) = cache[KeyOf(last)])

----------------------------------------------------------------------------
(* Properties of clear and clearAll *)

\* C13: clear(type, params) removes the entry of that one key from both
\* tiers and leaves the entries of every other key as they were; a get of
\* the key that follows returns absent, and a second clear changes nothing.
C13_TargetedClear ==
    /\ [](last.op = "clear" =>
            /\ KeyOf(last) \notin DOMAIN cache
            /\ StorageKey(KeyOf(last)) \notin DOMAIN localStorage
            /\ GetOutcome(last.type, last.params).ret = Absent
            /\ ClearOutcome(last.type, last.params).cache = cache
            /\ ClearOutcome(last.type, last.params).localStorage = localStorage)
    /\ [][ \A r \in PairRequests :
             LET key == generateKey(r[1], r[2])
                 skey == StorageKey(key)
             IN  (last'.op = "clear" /\ last'.type = r[1] /\ last'.params = r[2])
                 => /\ DOMAIN cache' = (DOMAIN cache) \ {key}
                    /\ \A k \in DOMAIN cache' : cache'[k] = cache[k]
                    /\ DOMAIN localStorage' = (DOMAIN localStorage) \ {skey}
                    /\ \A k \in DOMAIN localStorage' : localStorage'[k] = localStorage[k] ]_vars

\* both keys were held in both tiers, one was cleared and the other one stays
C13_Witness ==
    /\ last.op = "clear"
    /\ last.before = [memoryItems |-> 2, localStorageItems |-> 2]
    /\ KeyOf(last) \notin DOMAIN cache
    /\ \E r \in PairRequests :
          LET key == generateKey(r[1], r[2])
          IN  key # KeyOf(last) /\ key \in DOMAIN cache /\ HasRecord(key)

\* C14: after clearAll() getStats() reports zero entries in the Map and
\* zero entries in localStorage.
C14_ClearAllEmpties ==
    last.op = "clearAll" => getStats = NoStats

\* clearAll has run on two tiers that held entries, and what localStorage
\* still holds is not counted
C14_Witness ==
    /\ last.op = "clearAll"
    /\ last.before.memoryItems > 0 /\ last.before.localStorageItems > 0
    /\ getStats = NoStats
    /\ localStorage # EmptyMap

\* C15: clearAll() deletes only localStorage keys that carry the cache:
\* prefix; every other key, such as dota2_hero_constants, keeps its value.
C15_ClearAllScoped ==
    [][ last'.op = "clearAll" =>
          /\ \A k \in DOMAIN localStorage :
                ~startsWithCache(k) => (k \in DOMAIN localStorage' /\ localStorage'[k] = localStorage[k])
          /\ \A k \in DOMAIN localStorage : startsWithCache(k) => k \notin DOMAIN localStorage'
          /\ DOMAIN localStorage' \subseteq DOMAIN localStorage ]_vars

\* clearAll has removed cache records and the hero store's record is still in place
C15_Witness ==
    /\ last.op = "clearAll"
    /\ last.before.localStorageItems = 2
    /\ CACHE_KEY \in DOMAIN localStorage
    /\ localStorage[CACHE_KEY] = HeroRecord("H", 0)

----------------------------------------------------------------------------
(* Properties of the consumers *)

\* the fetch of the key of the last operation that completed last, if any
Fetched(rec) == hist.fetched[KeyOf(rec)]

----------------------------------------------------------------------------
(* Properties of the hero store *)

\* localStorage holds a hero record of the current version that has not expired
HeroRecordValid ==
    /\ MapHas(localStorage, CACHE_KEY)
    /\ localStorage[CACHE_KEY].syntax = "item"
    /\ localStorage[CACHE_KEY].item.version = CACHE_VERSION
    /\ now - localStorage[CACHE_KEY].item.timestamp < CACHE_DURATION

\* a call of fetchHeroConstants has just completed
HeroCallCompleted ==
    \/ last.op = "fetchHeroConstants" /\ last.path # "request"
    \/ last.op \in {"heroResolved", "heroRejected"}

\* C18 (as claimed): every call fetchHeroConstants(true) issues an upstream
\* request, whatever the state of the store, and the request that resolves
\* replaces heroConstants and the persisted record with the fetched data.
C18_ForceAlwaysFetches ==
    /\ (last.op = "fetchHeroConstants" /\ last.type = "forceRefresh") => last.path = "request"
    /\ (last.op = "heroResolved" /\ last.type = "forceRefresh") =>
          /\ hero.heroConstants = last.data
          /\ MapHas(localStorage, CACHE_KEY)
          /\ localStorage[CACHE_KEY] = HeroRecord(last.data, now)

\* C18 (amended): a call fetchHeroConstants(true) made while no hero fetch
\* is in flight reads nothing from the persisted record and issues an
\* upstream request; made while a fetch is in flight it returns at once and
\* changes nothing. The request that resolves replaces heroConstants with
\* the fetched data, and the persisted record too unless the localStorage
\* write fails, in which case the record stays as it was.
C18_ForceFetchesUnlessLoading ==
    [][ /\ (last'.op = "fetchHeroConstants" /\ last'.type = "forceRefresh") =>
              /\ localStorage' = localStorage
              /\ hero'.heroConstants = hero.heroConstants
              /\ IF hero.isLoadingConstants
                 THEN hero' = hero /\ pending' = pending
                 ELSE /\ pending' = Append(pending, HeroRequest(TRUE))
                      /\ hero'.isLoadingConstants
        /\ (last'.op = "heroResolved" /\ last'.type = "forceRefresh") =>
              /\ hero'.heroConstants = last'.data
              /\ ~hero'.isLoadingConstants
              /\ IF last'.wfail
                 THEN localStorage' = localStorage
                 ELSE localStorage' = MapSet(localStorage, CACHE_KEY, HeroRecord(last'.data, now)) ]_vars

\* a forced request has resolved with other data than the store held before
\* the page's first fetch, and the persisted record is the fetched data
C18_Witness ==
    /\ last.op = "heroResolved" /\ last.type = "forceRefresh" /\ ~last.wfail
    /\ now > 0
    /\ hero.heroConstants = last.data
    /\ localStorage[CACHE_KEY] = HeroRecord(last.data, now)

\* C19 (as claimed): while a valid, unexpired hero record is persisted,
\* heroConstants is non-null after every completed fetchHeroConstants call,
\* forced or not, resolved or rejected.
C19_HeroesStayAvailable ==
    (HeroCallCompleted /\ HeroRecordValid) => hero.heroConstants # Null

----------------------------------------------------------------------------
(* Properties of the two tiers taken together *)

\* C21 (as claimed): a get that finds the Map entry of its key invalid
\* purges it, so after a get that was not served the Map holds no entry for
\* the key and getStats does not count one.
C21_InvalidFastEntryPurged ==
    (last.op = "get" /\ ~Served(last)) =>
        /\ KeyOf(last) \notin DOMAIN cache
        /\ getStats.memoryItems = Cardinality(DOMAIN cache \ {KeyOf(last)})

C23_NoStaleAfterFailedWrite ==
    ( /\ last.op = "get"
      /\ KeyOf(last) \in DOMAIN hist.written
      /\ hist.written[KeyOf(last)].wfail )
    => last.ret \in {Absent, hist.written[KeyOf(last)].data}

\* C25: tier agreement. With no failing localStorage write and no other
\* writer, after every operation and for every key: if the Map holds a valid
\* entry, localStorage holds a record for the key with the same payload,
\* timestamp, version and ttl.
C25_TierAgreement ==
    \A r \in PairRequests :
        LET key == generateKey(r[1], r[2])
        IN  FastValid(r[1], key) => (HasRecord(key) /\ RecordOf(key) = cache[key])

\* the Map holds valid entries for both keys, written at different times,
\* and a sweep has just run
C25_Witness ==
    /\ last.op = "cleanupExpired"
    /\ \A r \in PairRequests : FastValid(r[1], generateKey(r[1], r[2]))
    /\ \E r1, r2 \in PairRequests :
          cache[generateKey(r1[1], r1[2])].timestamp # cache[generateKey(r2[1], r2[2])].timestamp

----------------------------------------------------------------------------
(* Properties of the consumers that share the store *)

\* C26 (as claimed): the response of a request that went out before its key
\* was cleared is not written into the cache: after such a request has
\* resolved, the key is still absent from both tiers.
C26_ClearNotUndone ==
    (last.op = "fetchResolved" /\ last.req.cleared) =>
        /\ KeyOf(last) \notin DOMAIN cache
        /\ StorageKey(KeyOf(last)) \notin DOMAIN localStorage

\* C24 (as claimed): a fetchHeroStats call made less than two hours after an
\* earlier fetchHeroStats call completed successfully is served from the
\* cache store and issues no upstream request.
C24_HeroStatsCached ==
    ( /\ last.op = "fetch" /\ last.by = "fetchHeroStats"
      /\ KeyOf(last) \in DOMAIN hist.fetched
      /\ now - Fetched(last).t0 < HeroStatsTtl )
    => Served(last)

\* C27 (as claimed): a payload fetchPlayerMatches returns from the cache was
\* stored by a fetchPlayerMatches call, never by another consumer.
C27_EntriesPrivate ==
    (last.op = "fetch" /\ last.by = "fetchPlayerMatches" /\ Served(last))
    => last.ret \in ResponsesOf("fetchPlayerMatches")

----------------------------------------------------------------------------
(* Properties of the hero store's requests and state *)

\* C28: single hero fetch in flight. Whatever calls of fetchHeroConstants,
\* forced or not, the plugin and the pages make, at most one request for the
\* hero constants is in flight, and isLoadingConstants is true exactly while
\* one is.
C28_SingleInflight ==
    /\ Len(pending) <= 1
    /\ hero.isLoadingConstants <=> pending # NoPending

\* a forced call made while a request was in flight has returned without
\* issuing a second one
C28_Witness ==
    /\ last.op = "fetchHeroConstants" /\ last.type = "forceRefresh"
    /\ last.path = "busy"
    /\ Len(pending) = 1 /\ hero.isLoadingConstants

\* C29 (as claimed): constantsError is non-null only when heroConstants is null.
C29_ErrorExcludesData ==
    hero.constantsError # Null => hero.heroConstants = Null

\* C30 (as claimed): whenever loadFromCache has accepted the persisted record,
\* the isCacheValid getter is true immediately afterwards.
C30_ValidityChecksAgree ==
    (last.op \in {"fetchHeroConstants", "pageLoad"} /\ last.path = "loaded")
    => heroIsCacheValid(hero, now)

====
